---- MODULE Spec2Model ----
(***************************************************************************)
(* Gestio: inventory and point-of-sale panel (src/app.py).                 *)
(*                                                                         *)
(* State: the three Firestore collections the routes use (productos,       *)
(* ventas, usuarios), the Flask-Login session of the browser, the          *)
(* in-flight POST /api/ventas requests (each one reads the products of its *)
(* cart one document at a time and then commits one write batch), and the  *)
(* last request/response pair served by the single-step routes.            *)
(*                                                                         *)
(* Strings are sequences of code points, so str.strip() and str.lower()    *)
(* are computed and not assumed.                                           *)
(***************************************************************************)
EXTENDS Integers, Sequences, FiniteSets, TLC

VARIABLES productos, ventas, sesion, venta_req, last

vars == <<productos, ventas, sesion, venta_req, last>>

-----------------------------------------------------------------------------
(* Bounds *)

\* largest stock figure a form submits / a product starts with
MaxStock == 2
\* largest quantity of one cart line
MaxCant == 2
\* largest number of lines in one cart
MaxItems == 2

-----------------------------------------------------------------------------
(* Strings *)

\* str.lower() on a sequence of code points (ASCII letters)
Lower(s) == [i \in 1..Len(s) |-> IF s[i] \in 65..90 THEN s[i] + 32 ELSE s[i]]

\* characters str.strip() removes
IsSpace(c) == c \in {9, 10, 11, 12, 13, 32}

RECURSIVE LStrip(_)
LStrip(s) == IF s # <<>> /\ IsSpace(Head(s)) THEN LStrip(Tail(s)) ELSE s

RECURSIVE RStrip(_)
RStrip(s) ==
    IF s # <<>> /\ IsSpace(s[Len(s)]) THEN RStrip(SubSeq(s, 1, Len(s) - 1)) ELSE s

Strip(s) == RStrip(LStrip(s))

\* lexicographic s <= t on code points (the order Firestore sorts strings in)
RECURSIVE StrLeq(_, _)
StrLeq(s, t) ==
    IF s = <<>> THEN TRUE
    ELSE IF t = <<>> THEN FALSE
    ELSE IF Head(s) < Head(t) THEN TRUE
    ELSE IF Head(s) > Head(t) THEN FALSE
    ELSE StrLeq(Tail(s), Tail(t))

-----------------------------------------------------------------------------
(* Request values *)

\* request.form.get(...) of a field that was not sent
NoneRaw == [t |-> "none"]
\* a field whose text is not a number ("abc")
BadRaw == [t |-> "bad"]
\* a field holding the decimal text of n
Num(n) == [t |-> "num", v |-> n]

\* request.form.get("nombre") or "": " Ab", "aA", and "" (or not sent)
NombresRaw == {<<32, 65, 98>>, <<97, 65>>, <<>>}
PreciosRaw == {BadRaw, Num(-1), Num(1)}
StocksRaw == {NoneRaw, BadRaw} \cup {Num(n) : n \in -1..MaxStock}

\* the three fields of the product form
Forms == [nombre : NombresRaw, precio : PreciosRaw, stock : StocksRaw]

\* document ids of the collection "productos": "p1", "p2"
ProductIds == {<<112, 49>>, <<112, 50>>}

\* a document that does not exist (snapshot.exists is False)
NoDoc == [t |-> "nodoc"]
\* the document has the field
HasField(doc, campo) == campo \in DOMAIN doc
\* current_user of a request without a session
NoUser == <<>>

\* float(x) / int(x) succeed
Parses(raw) == raw.t = "num"

\* request.form.get(campo, 0) or 0
OrZero(raw) == IF raw = NoneRaw THEN Num(0) ELSE raw

-----------------------------------------------------------------------------
(* Responses *)

\* what the last request served was (req: the query, the credentials or the
\* document id it named) and what it answered; doc is the id of the document a
\* JSON answer carries
RespDoc(op, req, code, msg, doc) ==
    [op |-> op, req |-> req, code |-> code, msg |-> msg, doc |-> doc]

Resp(op, req, code, msg) == RespDoc(op, req, code, msg, <<>>)

\* @login_required: the view runs only when current_user is authenticated
IsAuthenticated == sesion # NoUser

\* login_manager.login_view = "login": redirect, nothing else happens
RedirectToLogin(op, req) ==
    /\ ~IsAuthenticated
    /\ last' = Resp(op, req, 302, "login")
    /\ UNCHANGED <<productos, ventas, sesion, venta_req>>

-----------------------------------------------------------------------------
(* Catalog routes *)

\* db.collection("productos").add(data): a fresh auto-generated id
Add(data) ==
    \E id \in ProductIds :
        /\ productos[id] = NoDoc
        /\ productos' = [productos EXCEPT ![id] = data]

\* POST /api/productos
productos_post(f) ==
    LET nombre == Strip(f.nombre)
        precio == OrZero(f.precio)
        stock == OrZero(f.stock)
    IN  \/ /\ ~(Parses(precio) /\ Parses(stock))
           /\ last' = Resp("productos_post", NoneRaw, 400, "error")
           /\ UNCHANGED <<productos, ventas, sesion, venta_req>>
        \/ /\ Parses(precio) /\ Parses(stock)
           /\ Add([nombre |-> nombre, nombre_lower |-> Lower(nombre),
                   precio |-> precio.v, stock |-> stock.v])
           /\ last' = Resp("productos_post", NoneRaw, 302, "panel_productos")
           /\ UNCHANGED <<ventas, sesion, venta_req>>

\* GET /api/productos
productos_get ==
    /\ last' = Resp("productos_get", NoneRaw, 200, "json")
    /\ UNCHANGED <<productos, ventas, sesion, venta_req>>

\* the errores list of the two product forms is not empty
Errores(f) ==
    \/ Strip(f.nombre) = <<>>
    \/ ~Parses(f.precio)
    \/ Parses(f.precio) /\ f.precio.v < 0
    \/ ~Parses(f.stock)
    \/ Parses(f.stock) /\ f.stock.v < 0

\* POST /panel/productos/nuevo
nuevo_producto_form(f) ==
    \/ RedirectToLogin("nuevo_producto_form", NoneRaw)
    \/ /\ IsAuthenticated
       /\ Errores(f)
       /\ last' = Resp("nuevo_producto_form", NoneRaw, 400, "errores")
       /\ UNCHANGED <<productos, ventas, sesion, venta_req>>
    \/ /\ IsAuthenticated
       /\ ~Errores(f)
       /\ Add([nombre |-> Strip(f.nombre), precio |-> f.precio.v,
               stock |-> f.stock.v])
       /\ last' = Resp("nuevo_producto_form", NoneRaw, 302, "creado")
       /\ UNCHANGED <<ventas, sesion, venta_req>>

\* POST /panel/productos/<doc_id>/editar
editar_producto_form(doc_id, f) ==
    LET req == doc_id
    IN  \/ RedirectToLogin("editar_producto_form", req)
        \/ /\ IsAuthenticated
           /\ Errores(f)
           /\ last' = Resp("editar_producto_form", req, 400, "errores")
           /\ UNCHANGED <<productos, ventas, sesion, venta_req>>
        \/ /\ IsAuthenticated
           /\ ~Errores(f)
           /\ productos[doc_id] = NoDoc
           \* doc_ref.update() of a missing document raises NotFound, which
           \* nothing in the view catches
           /\ last' = Resp("editar_producto_form", req, 500, "unhandled")
           /\ UNCHANGED <<productos, ventas, sesion, venta_req>>
        \/ /\ IsAuthenticated
           /\ ~Errores(f)
           /\ productos[doc_id] # NoDoc
           /\ productos' = [productos EXCEPT ![doc_id] =
                   [nombre |-> Strip(f.nombre),
                    nombre_lower |-> Lower(Strip(f.nombre)),
                    precio |-> f.precio.v, stock |-> f.stock.v]]
           /\ last' = Resp("editar_producto_form", req, 302, "actualizado")
           /\ UNCHANGED <<ventas, sesion, venta_req>>

\* POST /panel/productos/<doc_id>/eliminar
eliminar_producto(doc_id) ==
    \/ RedirectToLogin("eliminar_producto", doc_id)
    \/ /\ IsAuthenticated
       /\ productos[doc_id] = NoDoc
       /\ last' = Resp("eliminar_producto", doc_id, 302, "no_encontrado")
       /\ UNCHANGED <<productos, ventas, sesion, venta_req>>
    \/ /\ IsAuthenticated
       /\ productos[doc_id] # NoDoc
       /\ productos' = [productos EXCEPT ![doc_id] = NoDoc]
       /\ last' = Resp("eliminar_producto", doc_id, 302, "eliminado")
       /\ UNCHANGED <<ventas, sesion, venta_req>>

\* GET /panel/productos, /panel/dashboard, /panel/alertas, /panel/caja,
\* /panel/ventas, /panel/ventas.csv, /panel/ventas/<id> and the two GET forms:
\* each is @login_required and only reads
PanelViews == {"panel_productos", "panel_dashboard", "panel_alertas", "panel_caja",
               "panel_ventas", "export_ventas_csv", "panel_venta_detalle"}

panel_view(v) ==
    \/ RedirectToLogin(v, NoneRaw)
    \/ /\ IsAuthenticated
       /\ last' = Resp(v, NoneRaw, 200, "html")
       /\ UNCHANGED <<productos, ventas, sesion, venta_req>>

-----------------------------------------------------------------------------
(* Search *)

\* "A", " AB", "b", "p1", " " as typed in ?q=
QueriesRaw == {<<65>>, <<32, 65, 66>>, <<98>>, <<112, 49>>, <<32>>}

\* the documents order_by("nombre_lower").start_at([lo]).end_at([hi]) can return:
\* a document without the field is not in the index of the field
InRange(lo, hi) ==
    {id \in ProductIds :
        /\ productos[id] # NoDoc
        /\ HasField(productos[id], "nombre_lower")
        /\ StrLeq(lo, productos[id].nombre_lower)
        /\ StrLeq(productos[id].nombre_lower, hi)}

\* ascending by nombre_lower, and by document id among equal values
Before(a, b) ==
    \/ productos[a].nombre_lower # productos[b].nombre_lower
       /\ StrLeq(productos[a].nombre_lower, productos[b].nombre_lower)
    \/ productos[a].nombre_lower = productos[b].nombre_lower /\ StrLeq(a, b)

\* .limit(1): the first document of the ordered range
First(S) == CHOOSE a \in S : \A b \in S : Before(a, b)

\* GET /api/buscar_producto?q=
buscar_producto(qraw) ==
    LET q == Strip(qraw)
        q_lower == Lower(q)
        found == InRange(q_lower, q_lower \o <<63743>>)
    IN  /\ last' =
              IF q = <<>> THEN Resp("buscar_producto", qraw, 400, "query vacia")
              ELSE IF q \in ProductIds /\ productos[q] # NoDoc
                   THEN RespDoc("buscar_producto", qraw, 200, "json", q)
              ELSE IF found # {}
                   THEN RespDoc("buscar_producto", qraw, 200, "json", First(found))
              ELSE Resp("buscar_producto", qraw, 404, "no encontrado")
        /\ UNCHANGED <<productos, ventas, sesion, venta_req>>

-----------------------------------------------------------------------------
(* Login *)

\* werkzeug's generate_password_hash / check_password_hash
Hash(password) == <<"hash", password>>
CheckPasswordHash(pwhash, password) == pwhash = Hash(password)

\* the collection "usuarios", written only by scripts/create_user.py (document
\* id = lowercased email): "a" is active, "b" was deactivated by hand
usuarios ==
    (<<97>> :> [email |-> <<97>>, password_hash |-> Hash("pw1"), rol |-> "admin",
                activo |-> TRUE])
    @@ (<<98>> :> [email |-> <<98>>, password_hash |-> Hash("pw2"), rol |-> "user",
                   activo |-> FALSE])

\* " A", "a", "B", "c" as typed in the login form
EmailsRaw == {<<32, 65>>, <<97>>, <<66>>, <<99>>}
Passwords == {"pw1", "pw2", ""}

\* the activo flag is not looked at
login_sin_activo(email_raw, password) ==
    LET email == Lower(Strip(email_raw))
        req == [email |-> email_raw, password |-> password]
    IN  \/ /\ email \notin DOMAIN usuarios
           /\ last' = Resp("login", req, 401, "no_encontrado")
           /\ UNCHANGED <<productos, ventas, sesion, venta_req>>
        \/ /\ email \in DOMAIN usuarios
           /\ ~CheckPasswordHash(usuarios[email].password_hash, password)
           /\ last' = Resp("login", req, 401, "credenciales")
           /\ UNCHANGED <<productos, ventas, sesion, venta_req>>
        \/ /\ email \in DOMAIN usuarios
           /\ CheckPasswordHash(usuarios[email].password_hash, password)
           /\ sesion' = email
           /\ last' = Resp("login", req, 302, "bienvenido")
           /\ UNCHANGED <<productos, ventas, venta_req>>

\* POST /login
login(email_raw, password) ==
    LET email == Lower(Strip(email_raw))
        req == [email |-> email_raw, password |-> password]
    IN  \/ /\ email \notin DOMAIN usuarios
           /\ last' = Resp("login", req, 401, "no_encontrado")
           /\ UNCHANGED <<productos, ventas, sesion, venta_req>>
        \/ /\ email \in DOMAIN usuarios
           /\ ~usuarios[email].activo
           /\ last' = Resp("login", req, 403, "inactivo")
           /\ UNCHANGED <<productos, ventas, sesion, venta_req>>
        \/ /\ email \in DOMAIN usuarios
           /\ usuarios[email].activo
           /\ ~CheckPasswordHash(usuarios[email].password_hash, password)
           /\ last' = Resp("login", req, 401, "credenciales")
           /\ UNCHANGED <<productos, ventas, sesion, venta_req>>
        \/ /\ email \in DOMAIN usuarios
           /\ usuarios[email].activo
           /\ CheckPasswordHash(usuarios[email].password_hash, password)
           /\ sesion' = email
           /\ last' = Resp("login", req, 302, "bienvenido")
           /\ UNCHANGED <<productos, ventas, venta_req>>

\* GET /logout
logout ==
    /\ sesion' = NoUser
    /\ last' = Resp("logout", NoneRaw, 302, "login")
    /\ UNCHANGED <<productos, ventas, venta_req>>

-----------------------------------------------------------------------------
(* Sales: POST /api/ventas *)

\* the requests that can be in flight at once
Requests == {"v1", "v2"}

Lineas == [id : ProductIds, cantidad : 1..MaxCant]
Carritos == UNION {[1..n -> Lineas] : n \in 0..MaxItems}
Totales == {0, 7}

Idle == [pc |-> "idle", items |-> <<>>, total |-> 0, i |-> 0, batch |-> <<>>]
\* a request that was answered while at line i of its cart: its locals are gone
Answered(pc, i) == [Idle EXCEPT !.pc = pc, !.i = i]

\* lines 366-374: parse the body, refuse an empty cart, open the batch
registrar_venta(r, items, total) ==
    /\ venta_req[r].pc = "idle"
    /\ venta_req' = [venta_req EXCEPT ![r] =
           IF items = <<>> THEN Answered("rejected", 0)
           ELSE [pc |-> "validating", items |-> items, total |-> total, i |-> 1,
                 batch |-> <<>>]]
    /\ UNCHANGED <<productos, ventas, sesion, last>>

\* the check is dropped
StockInsuficiente_nunca(stock_actual, cant) == FALSE

\* line 384: if stock_actual < cant
StockInsuficiente(stock_actual, cant) == stock_actual < cant

\* batch.update(ref, {"stock": n}): queued, nothing is written yet
BatchUpdate(batch, id, n) == Append(batch, [id |-> id, stock |-> n])

\* lines 376-386, one turn of the loop: read the product, check, queue the write
validar_linea(r) ==
    LET v == venta_req[r]
        it == v.items[v.i]
        snap == productos[it.id]
    IN  /\ v.pc = "validating"
        /\ venta_req' = [venta_req EXCEPT ![r] =
               IF snap = NoDoc THEN Answered("rejected", v.i)
               ELSE IF StockInsuficiente(snap.stock, it.cantidad)
                    THEN Answered("rejected", v.i)
               ELSE [v EXCEPT !.batch = BatchUpdate(v.batch, it.id, snap.stock - it.cantidad),
                              !.i = v.i + 1,
                              !.pc = IF v.i = Len(v.items) THEN "committing"
                                     ELSE "validating"]]
        /\ UNCHANGED <<productos, ventas, sesion, last>>

\* only the first queued write reaches the database
ApplyBatch_solo_primera(prods, batch) ==
    IF batch = <<>> THEN prods
    ELSE [prods EXCEPT ![Head(batch).id].stock = Head(batch).stock]

\* the writes of a batch, applied in the order they were queued
RECURSIVE ApplyBatch(_, _)
ApplyBatch(prods, batch) ==
    IF batch = <<>> THEN prods
    ELSE ApplyBatch([prods EXCEPT ![Head(batch).id].stock = Head(batch).stock],
                    Tail(batch))

\* an update of a document that no longer exists fails the whole commit
CommitFails(prods, batch) == \E k \in 1..Len(batch) : prods[batch[k].id] = NoDoc

\* lines 389-398: batch.set(venta_ref, ...), batch.commit()
commit(r) ==
    LET v == venta_req[r]
    IN  /\ v.pc = "committing"
        /\ \/ /\ CommitFails(productos, v.batch)
              \* NotFound leaves the view: nothing was written
              /\ venta_req' = [venta_req EXCEPT ![r] = Answered("failed", v.i)]
              /\ UNCHANGED <<productos, ventas>>
           \/ /\ ~CommitFails(productos, v.batch)
              /\ productos' = ApplyBatch(productos, v.batch)
              /\ ventas' = Append(ventas, [items |-> v.items, total |-> v.total,
                                           ts |-> Len(ventas) + 1])
              /\ venta_req' = [venta_req EXCEPT ![r] = Answered("committed", v.i)]
        /\ UNCHANGED <<sesion, last>>

-----------------------------------------------------------------------------
(* Specifications *)

NoRequest == Resp("none", NoneRaw, 0, "")

\* an empty database, no request served, nobody logged in
Init ==
    /\ productos = [id \in ProductIds |-> NoDoc]
    /\ ventas = <<>>
    /\ sesion = NoUser
    /\ venta_req = [r \in Requests |-> Idle]
    /\ last = NoRequest

\* a database with two products in stock; the browser may hold a session
\* cookie from before
InitVentas ==
    /\ productos = (<<112, 49>> :> [nombre |-> <<65, 98>>, nombre_lower |-> <<97, 98>>,
                                    precio |-> 1, stock |-> MaxStock])
                   @@ (<<112, 50>> :> [nombre |-> <<97, 65>>, precio |-> 1,
                                       stock |-> MaxStock])
    /\ ventas = <<>>
    /\ sesion \in {NoUser, <<97>>}
    /\ venta_req = [r \in Requests |-> Idle]
    /\ last = NoRequest

NextCatalogo ==
    \/ \E f \in Forms : productos_post(f)
    \/ productos_get
    \/ \E f \in Forms : nuevo_producto_form(f)
    \/ \E id \in ProductIds, f \in Forms : editar_producto_form(id, f)
    \/ \E id \in ProductIds : eliminar_producto(id)
    \/ \E v \in PanelViews : panel_view(v)
    \/ \E q \in QueriesRaw : buscar_producto(q)
    \/ \E e \in EmailsRaw, pw \in Passwords : login(e, pw)
    \/ logout

NextVentas ==
    \/ \E r \in Requests, items \in Carritos, total \in Totales :
           registrar_venta(r, items, total)
    \/ \E r \in Requests : validar_linea(r)
    \/ \E r \in Requests : commit(r)
    \/ \E id \in ProductIds : eliminar_producto(id)

Next == NextCatalogo \/ NextVentas

\* every route, from an empty database
Spec == Init /\ [][Next]_vars

\* the catalog, search and login routes, from an empty database
SpecCatalogo == Init /\ [][NextCatalogo]_vars

\* concurrent sales and product deletion over a stocked catalog
SpecVentas == InitVentas /\ [][NextVentas]_vars

-----------------------------------------------------------------------------
(* Properties *)

Stored == {id \in ProductIds : productos[id] # NoDoc}

\* the form is not a valid (name, price >= 0, stock >= 0) triple
Invalido(f) ==
    \/ Strip(f.nombre) = <<>>
    \/ ~(f.precio.t = "num" /\ f.precio.v >= 0)
    \/ ~(f.stock.t = "num" /\ f.stock.v >= 0)

\* C1: every stored product has stock >= 0, whatever requests were served.
C1_StockNoNegativo == \A id \in Stored : productos[id].stock >= 0

\* C2: every stored product has a nombre_lower field, equal to the lowercase of
\* its nombre.
C2_NombreLower ==
    \A id \in Stored :
        /\ HasField(productos[id], "nombre_lower")
        /\ productos[id].nombre_lower = Lower(productos[id].nombre)

\* the stock the last queued write of the batch gives product id
LastWrite(batch, id) ==
    LET ks == {k \in 1..Len(batch) : batch[k].id = id}
    IN  batch[CHOOSE k \in ks : \A j \in ks : j <= k].stock

BatchIds(batch) == {batch[k].id : k \in 1..Len(batch)}

\* the step answers request r with a committed sale
Commits(r) == venta_req[r].pc = "committing" /\ venta_req'[r].pc = "committed"

\* C3: a sale is all-or-nothing. A step of a sale request that commits applies
\* every queued stock write and appends exactly one sale record; every other
\* step of a sale request (a validation read, a rejection for an empty cart, a
\* missing product or insufficient stock at any line, a failed commit) leaves
\* all products and the ledger as they were. The ledger never changes
\* otherwise.
C3_TodoONada ==
    [][/\ \A r \in Requests :
              venta_req'[r] # venta_req[r] =>
                  IF venta_req'[r].pc = "committed"
                  THEN /\ venta_req[r].pc = "committing"
                       /\ ventas' = Append(ventas,
                              [items |-> venta_req[r].items,
                               total |-> venta_req[r].total,
                               ts |-> Len(ventas) + 1])
                       /\ \A id \in ProductIds :
                              IF id \in BatchIds(venta_req[r].batch)
                              THEN /\ productos[id] # NoDoc
                                   /\ productos'[id] =
                                          [productos[id] EXCEPT !.stock =
                                              LastWrite(venta_req[r].batch, id)]
                              ELSE productos'[id] = productos[id]
                  ELSE productos' = productos /\ ventas' = ventas
       /\ ventas' # ventas => \E r \in Requests : Commits(r)
      ]_vars

\* one request sold all the stock of "p2"; the other was rejected at its second
\* line for insufficient stock (both products are there), after its first line
\* had passed the check, and wrote nothing: the ledger holds the one sale and
\* "p1" has its stock
C3_Witness ==
    /\ \E r \in Requests : venta_req[r].pc = "rejected" /\ venta_req[r].i = 2
    /\ \E r \in Requests : venta_req[r].pc = "committed"
    /\ Len(ventas) = 1
    /\ ventas[1].items = <<[id |-> <<112, 50>>, cantidad |-> MaxStock]>>
    /\ Stored = ProductIds
    /\ productos[<<112, 49>>].stock = MaxStock
    /\ productos[<<112, 50>>].stock = 0

RECURSIVE SumCant(_, _)
\* the quantity a cart asks of product id, over all its lines
SumCant(items, id) ==
    IF items = <<>> THEN 0
    ELSE (IF Head(items).id = id THEN Head(items).cantidad ELSE 0)
         + SumCant(Tail(items), id)

\* every product of the cart of r still has the stock r read
SinInterferencia(r) ==
    \A k \in 1..Len(venta_req[r].batch) :
        LET id == venta_req[r].batch[k].id
        IN  /\ id \in Stored
            /\ productos[id].stock =
                   venta_req[r].batch[k].stock + venta_req[r].items[k].cantidad

\* C4: a sale that passed validation and commits with no other request in
\* between takes from every product of its cart the sum of the quantities of
\* the lines that name it, and adds one sale record with the items and total
\* as submitted.
C4_Decrementa ==
    [][\A r \in Requests :
           (Commits(r) /\ SinInterferencia(r)) =>
               /\ \A id \in BatchIds(venta_req[r].batch) :
                      productos'[id].stock =
                          productos[id].stock - SumCant(venta_req[r].items, id)
               /\ Len(ventas') = Len(ventas) + 1
               /\ ventas'[Len(ventas')].items = venta_req[r].items
               /\ ventas'[Len(ventas')].total = venta_req[r].total
      ]_vars

\* the ledger holds exactly two sales, each of one line, both of product id
DosVentasDe(id) ==
    /\ Len(ventas) = 2
    /\ \A n \in 1..2 : Len(ventas[n].items) = 1 /\ ventas[n].items[1].id = id

\* the two sales together sold more than the product had: the check of each
\* passed on a stock figure the other was about to change
Sobrevendido(id) ==
    /\ DosVentasDe(id)
    /\ ventas[1].items[1].cantidad + ventas[2].items[1].cantidad > MaxStock

C6_CrearValida ==
    [][\A f \in Forms :
           (Invalido(f) /\ (productos_post(f) \/ (IsAuthenticated /\ nuevo_producto_form(f))))
               => (productos' = productos /\ last'.code = 400)
      ]_vars

\* C7: a valid edit posted by a logged-in user for an id that is not in the
\* catalog is answered with the not-found notice and a redirect, and leaves the
\* catalog as it was.
C7_EditarNoEncontrado ==
    [][\A id \in ProductIds, f \in Forms :
           (IsAuthenticated /\ ~Invalido(f) /\ productos[id] = NoDoc
            /\ editar_producto_form(id, f))
               => /\ last'.code = 302
                  /\ last'.msg = "no_encontrado"
                  /\ productos' = productos
      ]_vars

\* s starts with p
StartsWith(s, p) == Len(p) <= Len(s) /\ SubSeq(s, 1, Len(p)) = p

\* the stored products whose name starts, case-insensitively, with q
Coinciden(q) == {id \in Stored : StartsWith(Lower(productos[id].nombre), Lower(q))}

\* C8: the answer to a search for a non-empty q is the product with id q if
\* there is one; otherwise a product whose name starts with q ignoring case,
\* first by lowercased name, if any is stored; otherwise 404.
C8_Buscar ==
    (last.op = "buscar_producto" /\ Strip(last.req) # <<>>) =>
        LET q == Strip(last.req)
        IN  IF q \in Stored THEN last.code = 200 /\ last.doc = q
            ELSE IF Coinciden(q) # {}
                 THEN /\ last.code = 200
                      /\ last.doc \in Coinciden(q)
                      /\ \A b \in Coinciden(q) :
                             StrLeq(Lower(productos[last.doc].nombre),
                                    Lower(productos[b].nombre))
            ELSE last.code = 404

\* the routes that create, edit or delete a product or show a panel view
Protegidas ==
    {"productos_post", "nuevo_producto_form", "editar_producto_form",
     "eliminar_producto"} \cup PanelViews

\* C9: a request to create, edit or delete a product or to see a panel view,
\* made without a session, is redirected to login and leaves the catalog as it
\* was.
C9_SoloConSesion ==
    [][(~IsAuthenticated /\ last' # last /\ last'.op \in Protegidas)
           => /\ last'.code = 302
              /\ last'.msg = "login"
              /\ productos' = productos
      ]_vars

\* the credentials are those of an active account
Credenciales(email_raw, password) ==
    LET email == Lower(Strip(email_raw))
    IN  /\ email \in DOMAIN usuarios
        /\ usuarios[email].activo
        /\ usuarios[email].password_hash = Hash(password)

\* C10: a login attempt sets the session (to the trimmed, lowercased email) if
\* and only if a record exists under that key, is active, and the password
\* matches its hash; any other attempt is answered 401 or 403 and leaves the
\* session as it was.
C10_Login ==
    [][(last' # last /\ last'.op = "login") =>
           IF Credenciales(last'.req.email, last'.req.password)
           THEN sesion' = Lower(Strip(last'.req.email)) /\ last'.code = 302
           ELSE sesion' = sesion /\ last'.code \in {401, 403}
      ]_vars

\* "a" is logged in (mixed-case, padded email accepted), then the deactivated
\* "b" tried with its correct password, was refused, and the session is still a's
C10_Witness ==
    /\ last.op = "login"
    /\ last.code = 403
    /\ Lower(Strip(last.req.email)) = <<98>>
    /\ usuarios[<<98>>].password_hash = Hash(last.req.password)
    /\ sesion = <<97>>

\* C11: a sale request moves idle -> validating -> committing and ends
\* committed (200) or rejected (400); none ends in an unhandled failure, also
\* when a product of its cart is deleted between its read and its commit.
C11_SinFalloNoManejado ==
    \A r \in Requests :
        venta_req[r].pc \in {"idle", "validating", "committing", "committed",
                             "rejected"}

RECURSIVE Vendido(_, _)
\* the quantity of product id over the sale records of a ledger
Vendido(ledger, id) ==
    IF ledger = <<>> THEN 0
    ELSE SumCant(Head(ledger).items, id) + Vendido(Tail(ledger), id)

\* C12: for a product that no edit or delete touched, the stock it started with
\* minus its stored stock is the quantity the ledger records for it.
C12_Conservacion ==
    \A id \in Stored : MaxStock - productos[id].stock = Vendido(ventas, id)

\* C12 over ledgers whose carts name each product once: the loss left is that of
\* one sale overwriting the write of another
C12_ConservacionSinRepetidos ==
    (\A n \in 1..Len(ventas) : \A id \in ProductIds :
         Cardinality({k \in 1..Len(ventas[n].items) : ventas[n].items[k].id = id}) <= 1)
        => C12_Conservacion

====
